---- MODULE Spec2Model ----
(***************************************************************************)
(* alloy-hover-lsp: the document store (Backend.files behind an RwLock),   *)
(* the dictionary (Docs) loaded by main, and the hover handler, modelled   *)
(* from crates/alloy-hover-lsp/src/main.rs; and the Zed extension that     *)
(* locates the server binary and the docs file, modelled from src/lib.rs.  *)
(*                                                                         *)
(* A text or a line is a sequence of characters, a character is a string.  *)
(* Option<T> is a sequence of length at most one: None is <<>> and Some(x) *)
(* is <<x>>.  Result<T> is a pair <<"Ok", x>> or <<"Err", e>>.             *)
(***************************************************************************)
EXTENDS Integers, Sequences, FiniteSets, TLC

VARIABLES
    phase,      \* position of main: "start", "serving", "exit_err"
    resource,   \* the dictionary resource main reads (the file at ALLOY_HOVER_DOCS)
    docs,       \* Option<Docs>: the loaded dictionary (Backend.docs)
    files,      \* Backend.files: identifier -> Option<text>
    lock,       \* the RwLock around files: its writer and its readers
    tasks,      \* one record per in-flight handler: its position and its locals
    history,    \* per identifier, the kind and the text of the notification
                \* applied last (history variable)
    cached_binary_path,  \* ConfAlloy.cached_binary_path: Option<PathBuf>
    cached_docs_path,    \* ConfAlloy.cached_docs_path: Option<PathBuf>
    disk,       \* the file system the extension sees: location -> what is there
    host,       \* the editor's side: the platform, current_dir() and which()
    reply       \* the last call of language_server_command: its argument, its
                \* result and what it did (history variable)

\* the state of the Zed extension (src/lib.rs)
ext == <<cached_binary_path, cached_docs_path, disk, host, reply>>

vars == <<phase, resource, docs, files, lock, tasks, history, ext>>

----------------------------------------------------------------------------
(* Bounds of the model *)

MaxLen == 3      \* longest text of the generated input set
MaxLine == 1     \* largest line index of a hover query
MaxCol == 4      \* largest column of a hover query
MaxBatch == 2    \* longest content_changes batch of a did_change
MaxTasks == 2    \* handlers in flight at once

----------------------------------------------------------------------------
(* Option and Result *)

None == <<>>
Some(x) == <<x>>
Ok(x) == <<"Ok", x>>
Err(e) == <<"Err", e>>

----------------------------------------------------------------------------
(* Characters.  A character outside ASCII is written as its code point:    *)
(* "U+00E9" (e with acute accent) is alphanumeric and takes two bytes in    *)
(* UTF-8, "U+2192" (rightwards arrow) is not alphanumeric and takes three.  *)

Alphanumeric == {"a", "b", "c", "e", "f", "l", "o", "s", "t", "x", "y", "A", "U+00E9"}

len_utf8(ch) == IF ch = "U+00E9" THEN 2 ELSE IF ch = "U+2192" THEN 3 ELSE 1

\* the quote taken for a word character
is_word_or_quote(ch) == ch \in Alphanumeric \/ ch = "_" \/ ch = "." \/ ch = "\""

is_word(ch) == ch \in Alphanumeric \/ ch = "_" \/ ch = "."

\* str::len: the length of a line in bytes
RECURSIVE len(_)
len(line) == IF line = <<>> THEN 0 ELSE len_utf8(Head(line)) + len(Tail(line))

\* line.chars().nth(n): the n-th character (from 0), None past the end
chars_nth(line, n) == IF n < Len(line) THEN Some(line[n + 1]) ELSE None

\* .map(is_word).unwrap_or(false)
map_is_word(opt) == IF opt = None THEN FALSE ELSE is_word(opt[1])

\* the number of characters that end at or before byte offset b, and
\* whether b is a character boundary of the line
RECURSIVE chars_before(_, _)
chars_before(line, b) ==
    IF line = <<>> \/ len_utf8(Head(line)) > b THEN 0
    ELSE 1 + chars_before(Tail(line), b - len_utf8(Head(line)))

is_char_boundary(line, b) ==
    b <= len(line) /\ len(SubSeq(line, 1, chars_before(line, b))) = b

\* str::get(start..end): the slice between two byte offsets, None unless
\* start <= end <= len and both are character boundaries
get(line, s, e) ==
    IF s <= e /\ is_char_boundary(line, s) /\ is_char_boundary(line, e)
    THEN Some(SubSeq(line, chars_before(line, s) + 1, chars_before(line, e)))
    ELSE None

\* Option<&str>::unwrap_or("")
unwrap_or_empty(opt) == IF opt = None THEN <<>> ELSE opt[1]

\* str::trim_matches('"'): every leading and every trailing double quote is removed
RECURSIVE trim_start_matches(_)
trim_start_matches(s) ==
    IF s /= <<>> /\ Head(s) = "\"" THEN trim_start_matches(Tail(s)) ELSE s

RECURSIVE trim_end_matches(_)
trim_end_matches(s) ==
    IF s /= <<>> /\ s[Len(s)] = "\"" THEN trim_end_matches(SubSeq(s, 1, Len(s) - 1)) ELSE s

trim_matches(s) == trim_end_matches(trim_start_matches(s))

\* str::lines: split at "\n", a "\r" right before the "\n" is dropped with it,
\* and no empty line is produced after a final "\n"
strip_cr(l) == IF l /= <<>> /\ l[Len(l)] = "\r" THEN SubSeq(l, 1, Len(l) - 1) ELSE l

RECURSIVE lines_from(_, _, _)
lines_from(text, i, cur) ==
    IF i > Len(text) THEN (IF cur = <<>> THEN <<>> ELSE <<cur>>)
    ELSE IF text[i] = "\n" THEN <<strip_cr(cur)>> \o lines_from(text, i + 1, <<>>)
    ELSE lines_from(text, i + 1, Append(cur, text[i]))

lines(text) == lines_from(text, 1, <<>>)

\* text.lines().nth(n).unwrap_or_default()
line_at(text, n) == IF n < Len(lines(text)) THEN lines(text)[n + 1] ELSE <<>>

----------------------------------------------------------------------------
(* Docs *)

\* a lookup that also matches a key the word is a prefix of
is_prefix(p, k) == Len(p) <= Len(k) /\ SubSeq(k, 1, Len(p)) = p
Docs_get_prefix(d, key) ==
    IF \E k \in DOMAIN d : is_prefix(key, k)
    THEN Some(d[CHOOSE k \in DOMAIN d : is_prefix(key, k)])
    ELSE None

\* Docs::get: exact lookup in the map
Docs_get(d, key) == IF key \in DOMAIN d THEN Some(d[key]) ELSE None

\* a load that falls back to the empty Docs::default() on an error
Docs_load_or_default(r) ==
    IF r.kind = "table" THEN Ok(r.map) ELSE Ok([k \in {} |-> <<>>])

\* Docs::load: read_to_string fails on a missing or unreadable file,
\* toml::from_str fails on malformed text and on a value that is no string
Docs_load(r) ==
    IF r.kind \in {"missing", "unreadable"} THEN Err("reading")
    ELSE IF r.kind \in {"malformed", "nonstring"} THEN Err("parsing alloy-hover.toml")
    ELSE Ok(r.map)

----------------------------------------------------------------------------
(* Inputs *)

IdA == "file:///a"
IdB == "file:///b"
Ids == {IdA, IdB}

Tasks == 1 .. MaxTasks

\* every text of at most MaxLen characters over a word character, a quote, a
\* space, a two-byte word character and a line break
Alphabet == {"a", "\"", " ", "U+00E9", "\n"}
GenTexts == UNION {[1 .. n -> Alphabet] : n \in 0 .. MaxLen}

Scenario1Text ==
    <<"l", "e", "t", " ", "x", " ", "=", " ",
      "a", "l", "l", "o", "y", ".", "c", "a", "s", "t", "(", "y", ")", ";">>
Scenario2Text == <<"c", "a", "l", "l", "(", "\"", "f", "o", "o", "\"", ")">>
CrLfText == <<"a", "\r", "\n", "a", "\r">>
ArrowText == <<"U+2192", "a", "_", ".">>
ScenarioTexts == {Scenario1Text, Scenario2Text, CrLfText, ArrowText}

KeyAlloyCast == <<"a", "l", "l", "o", "y", ".", "c", "a", "s", "t">>
KeyFoo == <<"f", "o", "o">>
KeyA == <<"a">>
KeyAA == <<"a", "a">>

Payload(key) == <<"docs of", key>>
DocsOf(keys) == [k \in keys |-> Payload(k)]

EmptyDocs == DocsOf({})
Scenario1Docs == DocsOf({KeyAlloyCast})
Scenario2Docs == DocsOf({KeyFoo, KeyA})
WordDocs == DocsOf(UNION {[1 .. n -> {"a", "U+00E9"}] : n \in 1 .. MaxLen} \ {KeyAA})
UpperDocs == DocsOf({<<"A">>, KeyAA})
AllDocs == {EmptyDocs, Scenario1Docs, Scenario2Docs, WordDocs, UpperDocs}

Positions ==
    ((0 .. MaxLine) \X (0 .. MaxCol)) \cup ({0} \X (5 .. 23))

\* the inputs of the server runs: two texts, the batches over them, two cursors
ServerTexts == {<<"a">>, <<"b", "\n", "a">>}
ServerBatches == UNION {[1 .. n -> ServerTexts] : n \in 0 .. MaxBatch}
ServerPositions == {<<0, 0>>, <<1, 1>>}
ServerDocs == {DocsOf({KeyA})}

Resource(kind, map) == [kind |-> kind, map |-> map]
Resources ==
    {Resource(k, EmptyDocs) : k \in {"missing", "unreadable", "malformed", "nonstring"}}
        \cup {Resource("table", d) : d \in ServerDocs}

----------------------------------------------------------------------------
(* State *)

Idle ==
    [pc |-> "idle", method |-> "", uri |-> "", line |-> 0, character |-> 0, text |-> None,
     content_changes |-> <<>>, start |-> 0, end |-> 0, result |-> None]

Unlocked == [writer |-> None, readers |-> {}]

NoHistory == [kind |-> "none", text |-> None]

\* the server's runs leave the extension out: its state is empty and stays so
ExtensionOff ==
    /\ cached_binary_path = None
    /\ cached_docs_path = None
    /\ disk = <<>>
    /\ host = <<>>
    /\ reply = <<>>

\* the state main builds before it loads the dictionary
Init ==
    /\ phase = "start"
    /\ resource \in Resources
    /\ docs = None
    /\ files = [id \in Ids |-> None]
    /\ lock = Unlocked
    /\ tasks = [t \in Tasks |-> Idle]
    /\ history = [id \in Ids |-> NoHistory]
    /\ ExtensionOff

Serving(t, pc) == phase = "serving" /\ tasks[t].pc = pc

Goto(t, rec) == tasks' = [tasks EXCEPT ![t] = rec]

Unit == <<>>

\* the handler of `method` has returned res
Returned(method, res) ==
    [Idle EXCEPT !.pc = "ret", !.method = method, !.result = Some(res)]

----------------------------------------------------------------------------
(* main *)

\* main, lines 132-135: the dictionary is loaded, and an error of the load
\* is returned from main by `?` before the service is built
main_load ==
    /\ phase = "start"
    /\ LET r == Docs_load(resource)
       IN IF r[1] = "Ok"
          THEN phase' = "serving" /\ docs' = Some(r[2])
          ELSE phase' = "exit_err" /\ docs' = docs
    /\ UNCHANGED <<ext, resource, files, lock, tasks, history>>

----------------------------------------------------------------------------
(* The handlers without state *)

Capabilities == [text_document_sync |-> "FULL", hover_provider |-> TRUE]

initialize(t) ==
    /\ Serving(t, "idle")
    /\ Goto(t, Returned("initialize", Ok(Capabilities)))
    /\ UNCHANGED <<ext, phase, resource, docs, files, lock, history>>

initialized(t) ==
    /\ Serving(t, "idle")
    /\ Goto(t, Returned("initialized", Unit))
    /\ UNCHANGED <<ext, phase, resource, docs, files, lock, history>>

\* a shutdown that empties the document store before it returns
shutdown_clear(t) ==
    /\ Serving(t, "idle")
    /\ files' = [id \in Ids |-> None]
    /\ Goto(t, Returned("shutdown", Ok(Unit)))
    /\ UNCHANGED <<ext, phase, resource, docs, lock, history>>

shutdown(t) ==
    /\ Serving(t, "idle")
    /\ Goto(t, Returned("shutdown", Ok(Unit)))
    /\ UNCHANGED <<ext, phase, resource, docs, files, lock, history>>

\* the handler's future has resolved: its slot is free again
complete(t) ==
    /\ Serving(t, "ret")
    /\ Goto(t, Idle)
    /\ UNCHANGED <<ext, phase, resource, docs, files, lock, history>>

----------------------------------------------------------------------------
(* The RwLock *)

can_read == lock.writer = None
can_write == lock.writer = None /\ lock.readers = {}

\* entry(uri).or_default().push_str(text): the text is appended to the entry
insert_append(map, uri, text) ==
    [map EXCEPT ![uri] = IF @ = <<>> THEN <<text>> ELSE <<@[1] \o text>>]

\* entry(uri).or_insert(text): an entry that exists is kept
or_insert(map, uri, text) ==
    [map EXCEPT ![uri] = IF @ = <<>> THEN <<text>> ELSE @]

\* *map = HashMap::from([(uri, text)]): the map is replaced by the one entry
insert_alone(map, uri, text) == [id \in DOMAIN map |-> IF id = uri THEN Some(text) ELSE None]

\* HashMap::insert: the entry of the key is set, every other entry is kept
insert(map, uri, text) == [map EXCEPT ![uri] = Some(text)]

----------------------------------------------------------------------------
(* did_open *)

\* lines 57-60: what did_open makes of the map
did_open_apply(map, uri, text) == insert(map, uri, text)

recv_did_open(t, uri, text) ==
    /\ Serving(t, "idle")
    /\ Goto(t, [Idle EXCEPT !.pc = "open_write", !.method = "didOpen", !.uri = uri, !.text = Some(text)])
    /\ UNCHANGED <<ext, phase, resource, docs, files, lock, history>>

did_open_write(t) ==
    /\ Serving(t, "open_write")
    /\ can_write
    /\ lock' = [lock EXCEPT !.writer = Some(t)]
    /\ Goto(t, [tasks[t] EXCEPT !.pc = "open_insert"])
    /\ UNCHANGED <<ext, phase, resource, docs, files, history>>

did_open_insert(t) ==
    /\ Serving(t, "open_insert")
    /\ files' = did_open_apply(files, tasks[t].uri, tasks[t].text[1])
    /\ lock' = [lock EXCEPT !.writer = None]
    /\ history' = [history EXCEPT ![tasks[t].uri] =
                      [kind |-> "open", text |-> tasks[t].text]]
    /\ Goto(t, [tasks[t] EXCEPT !.pc = "ret", !.result = Some(Unit)])
    /\ UNCHANGED <<ext, phase, resource, docs>>

----------------------------------------------------------------------------
(* did_change *)

\* the text of the final change of a batch as the client sent it, for the history
final_of(changes) == IF changes = <<>> THEN None ELSE Some(changes[Len(changes)])

\* .last().unwrap_or_default(): an empty batch yields an empty change
last_or_default(changes) == IF changes = <<>> THEN Some(<<>>) ELSE Some(changes[Len(changes)])

\* params.content_changes.into_iter().next(): the first change, not the last
first_change(changes) == IF changes = <<>> THEN <<>> ELSE <<changes[1]>>

\* params.content_changes.into_iter().last()
last(changes) == IF changes = <<>> THEN None ELSE Some(changes[Len(changes)])

\* lines 64-69: what did_change makes of the map
did_change_apply(map, uri, changes) ==
    IF last(changes) = None THEN map ELSE insert(map, uri, last(changes)[1])

recv_did_change(t, uri, changes) ==
    /\ Serving(t, "idle")
    /\ Goto(t, [Idle EXCEPT !.pc = "change_last", !.method = "didChange", !.uri = uri,
                              !.content_changes = changes])
    /\ UNCHANGED <<ext, phase, resource, docs, files, lock, history>>

did_change_last(t) ==
    /\ Serving(t, "change_last")
    /\ LET change == last(tasks[t].content_changes)
       IN IF change = None
          THEN Goto(t, [tasks[t] EXCEPT !.pc = "ret", !.result = Some(Unit)])
          ELSE Goto(t, [tasks[t] EXCEPT !.pc = "change_write", !.text = change])
    /\ UNCHANGED <<ext, phase, resource, docs, files, lock, history>>

did_change_write(t) ==
    /\ Serving(t, "change_write")
    /\ can_write
    /\ lock' = [lock EXCEPT !.writer = Some(t)]
    /\ Goto(t, [tasks[t] EXCEPT !.pc = "change_insert"])
    /\ UNCHANGED <<ext, phase, resource, docs, files, history>>

\* a did_change that ignores a document that was never opened
did_change_insert_if_open(t) ==
    /\ Serving(t, "change_insert")
    /\ files' = IF files[tasks[t].uri] = None THEN files
                ELSE insert(files, tasks[t].uri, tasks[t].text[1])
    /\ lock' = [lock EXCEPT !.writer = None]
    /\ history' = [history EXCEPT ![tasks[t].uri] =
                      [kind |-> "change",
                       text |-> final_of(tasks[t].content_changes)]]
    /\ Goto(t, [tasks[t] EXCEPT !.pc = "ret", !.result = Some(Unit)])
    /\ UNCHANGED <<ext, phase, resource, docs>>

did_change_insert(t) ==
    /\ Serving(t, "change_insert")
    /\ files' = insert(files, tasks[t].uri, tasks[t].text[1])
    /\ lock' = [lock EXCEPT !.writer = None]
    /\ history' = [history EXCEPT ![tasks[t].uri] =
                      [kind |-> "change",
                       text |-> final_of(tasks[t].content_changes)]]
    /\ Goto(t, [tasks[t] EXCEPT !.pc = "ret", !.result = Some(Unit)])
    /\ UNCHANGED <<ext, phase, resource, docs>>

----------------------------------------------------------------------------
(* hover *)

recv_hover(t, uri, pos) ==
    /\ Serving(t, "idle")
    /\ Goto(t, [Idle EXCEPT !.pc = "hover_read", !.method = "hover", !.uri = uri,
                              !.line = pos[1], !.character = pos[2]])
    /\ UNCHANGED <<ext, phase, resource, docs, files, lock, history>>

\* line 80: self.files.read()
hover_read(t) ==
    /\ Serving(t, "hover_read")
    /\ can_read
    /\ lock' = [lock EXCEPT !.readers = @ \cup {t}]
    /\ Goto(t, [tasks[t] EXCEPT !.pc = "hover_get"])
    /\ UNCHANGED <<ext, phase, resource, docs, files, history>>

\* the entry read again from the map instead of the clone
hover_text_reread(t) == files[tasks[t].uri]

\* the text the handler works on from line 83 on: its clone of the entry
hover_text(t) == tasks[t].text

\* what a read of the entry of uri yields: the entry, and anything when the
\* read races with an insert (a writer holds the lock)
Torn == Some(<<"torn">>)
read_entry(uri) == IF lock.writer = None THEN {files[uri]} ELSE {files[uri], Torn}

\* guard.entry(uri).or_default().clone(): a missing entry is created empty
hover_get_or_default(t) ==
    /\ Serving(t, "hover_get")
    /\ lock' = [lock EXCEPT !.readers = @ \ {t}]
    /\ files' = or_insert(files, tasks[t].uri, <<>>)
    /\ Goto(t, [tasks[t] EXCEPT !.pc = "hover_some", !.text = files'[tasks[t].uri]])
    /\ UNCHANGED <<ext, phase, resource, docs, history>>

\* lines 81-82: guard.get(&uri).cloned(), and the guard is dropped
hover_get(t) ==
    /\ Serving(t, "hover_get")
    /\ lock' = [lock EXCEPT !.readers = @ \ {t}]
    /\ \E text \in read_entry(tasks[t].uri) :
          Goto(t, [tasks[t] EXCEPT !.pc = "hover_some", !.text = text])
    /\ UNCHANGED <<ext, phase, resource, docs, files, history>>

\* line 85: the line of the query in the handler's text
hover_line(t) == line_at(hover_text(t)[1], tasks[t].line)

\* lines 83-88: no text, no hover; otherwise start = end = pos.character
hover_some(t) ==
    /\ Serving(t, "hover_some")
    /\ IF hover_text(t) = None
       THEN Goto(t, [tasks[t] EXCEPT !.pc = "ret", !.result = Some(Ok(None))])
       ELSE Goto(t, [tasks[t] EXCEPT !.pc = "hover_back",
                                     !.start = tasks[t].character,
                                     !.end = tasks[t].character])
    /\ UNCHANGED <<ext, phase, resource, docs, files, lock, history>>

\* line 91: the condition of the backward scan
back_cond(line, start) == start > 0 /\ map_is_word(chars_nth(line, start - 1))

\* line 94: the condition of the forward scan
fwd_cond(line, end) == end < len(line) /\ map_is_word(chars_nth(line, end))

\* lines 91-93: one turn of the backward scan, or its exit
hover_back(t) ==
    /\ Serving(t, "hover_back")
    /\ IF back_cond(hover_line(t), tasks[t].start)
       THEN Goto(t, [tasks[t] EXCEPT !.start = @ - 1])
       ELSE Goto(t, [tasks[t] EXCEPT !.pc = "hover_fwd"])
    /\ UNCHANGED <<ext, phase, resource, docs, files, lock, history>>

\* a forward scan whose turn does not advance end
hover_fwd_stuck(t) ==
    /\ Serving(t, "hover_fwd")
    /\ IF fwd_cond(hover_line(t), tasks[t].end)
       THEN Goto(t, tasks[t])
       ELSE Goto(t, [tasks[t] EXCEPT !.pc = "hover_word"])
    /\ UNCHANGED <<ext, phase, resource, docs, files, lock, history>>

\* lines 94-96: one turn of the forward scan, or its exit
hover_fwd(t) ==
    /\ Serving(t, "hover_fwd")
    /\ IF fwd_cond(hover_line(t), tasks[t].end)
       THEN Goto(t, [tasks[t] EXCEPT !.end = @ + 1])
       ELSE Goto(t, [tasks[t] EXCEPT !.pc = "hover_word"])
    /\ UNCHANGED <<ext, phase, resource, docs, files, lock, history>>

\* line 98: line.get(start..end).unwrap_or("").trim_matches('"')
word_of(line, start, end) == trim_matches(unwrap_or_empty(get(line, start, end)))

Position(line, character) == [line |-> line, character |-> character]

\* a hover whose range collapses to the start of the word
Hover_collapsed(md, line, start, end) ==
    [contents |-> md,
     range |-> [start |-> Position(line, start), end |-> Position(line, start)]]

\* lines 104-119: the hover returned on a hit
Hover(md, line, start, end) ==
    [contents |-> md,
     range |-> [start |-> Position(line, start), end |-> Position(line, end)]]

\* lines 99-122: the empty word and the miss give None, the hit gives the
\* payload and the range of the scans
lookup(d, word, line, start, end) ==
    IF word = <<>> THEN Ok(None)
    ELSE IF Docs_get(d, word) /= None
         THEN Ok(Some(Hover(Docs_get(d, word)[1], line, start, end)))
         ELSE Ok(None)

\* the scans of lines 91-96 run to their end
RECURSIVE scan_back(_, _)
scan_back(line, start) ==
    IF back_cond(line, start) THEN scan_back(line, start - 1) ELSE start

RECURSIVE scan_fwd(_, _)
scan_fwd(line, end) ==
    IF fwd_cond(line, end) THEN scan_fwd(line, end + 1) ELSE end

\* lines 83-122: the handler as a function of the text it cloned
resolve(text, line, character, d) ==
    IF text = None THEN Ok(None)
    ELSE LET l == line_at(text[1], line)
             start == scan_back(l, character)
             end == scan_fwd(l, character)
         IN lookup(d, word_of(l, start, end), line, start, end)

\* lines 98-122: the word is taken from the line and looked up
hover_word(t) ==
    /\ Serving(t, "hover_word")
    /\ \E line \in {hover_line(t)} :
       \E word \in {word_of(line, tasks[t].start, tasks[t].end)} :
          Goto(t, [tasks[t] EXCEPT
                      !.pc = "ret",
                      !.result = Some(lookup(docs[1], word, tasks[t].line,
                                             tasks[t].start, tasks[t].end))])
    /\ UNCHANGED <<ext, phase, resource, docs, files, lock, history>>

----------------------------------------------------------------------------
(* The server: main, then any handler in any free slot *)

Next ==
    \/ main_load
    \/ \E t \in Tasks :
        \/ initialize(t)
        \/ initialized(t)
        \/ shutdown(t)
        \/ complete(t)
        \/ \E uri \in Ids, text \in ServerTexts : recv_did_open(t, uri, text)
        \/ did_open_write(t)
        \/ did_open_insert(t)
        \/ \E uri \in Ids, changes \in ServerBatches : recv_did_change(t, uri, changes)
        \/ did_change_last(t)
        \/ did_change_write(t)
        \/ did_change_insert(t)
        \/ \E uri \in Ids, pos \in ServerPositions : recv_hover(t, uri, pos)
        \/ hover_read(t)
        \/ hover_get(t)
        \/ hover_some(t)
        \/ hover_back(t)
        \/ hover_fwd(t)
        \/ hover_word(t)

Spec == Init /\ [][Next]_vars

----------------------------------------------------------------------------
(* The server under fair scheduling.  A handler that was started runs on:  *)
(* its next step is taken if it is enabled again and again.  The steps     *)
(* that take the lock are enabled whenever the lock is free, and every     *)
(* holder releases it at its next step, so no handler is passed over for   *)
(* ever (the handlers have no await point: tower-lsp polls each to its end *)
(* once it is started).                                                     *)

Run(t) ==
    \/ did_open_write(t)
    \/ did_open_insert(t)
    \/ did_change_last(t)
    \/ did_change_write(t)
    \/ did_change_insert(t)
    \/ hover_read(t)
    \/ hover_get(t)
    \/ hover_some(t)
    \/ hover_back(t)
    \/ hover_fwd(t)
    \/ hover_word(t)

\* the server is serving with its dictionary loaded and an empty store
InitFair ==
    /\ phase = "serving"
    /\ \E d \in ServerDocs : resource = Resource("table", d) /\ docs = Some(d)
    /\ files = [id \in Ids |-> None]
    /\ lock = Unlocked
    /\ tasks = [t \in Tasks |-> Idle]
    /\ history = [id \in Ids |-> NoHistory]
    /\ ExtensionOff

\* the inputs of the fair runs: one identifier, batches of at most one change
FairBatches == {b \in ServerBatches : Len(b) <= 1}
FairPositions == {<<0, 1>>, <<1, 0>>}

NextFair ==
    \E t \in Tasks :
        \/ \E text \in ServerTexts : recv_did_open(t, IdA, text)
        \/ \E changes \in FairBatches : recv_did_change(t, IdA, changes)
        \/ \E pos \in FairPositions : recv_hover(t, IdA, pos)
        \/ Run(t)
        \/ complete(t)

SpecFair == InitFair /\ [][NextFair]_vars /\ \A t \in Tasks : SF_vars(Run(t))

----------------------------------------------------------------------------
(* The hover resolver on its own: the server is serving, one document is   *)
(* open with any text of the input set, any dictionary is loaded, and one  *)
(* handler slot answers hover queries at any position.                     *)

InitResolve ==
    /\ phase = "serving"
    /\ \E d \in AllDocs : resource = Resource("table", d) /\ docs = Some(d)
    /\ \E text \in GenTexts \cup ScenarioTexts :
          /\ files = [id \in Ids |-> IF id = IdA THEN Some(text) ELSE None]
          /\ history = [id \in Ids |->
                          IF id = IdA
                          THEN [kind |-> "open", text |-> Some(text)]
                          ELSE NoHistory]
    /\ lock = Unlocked
    /\ tasks = [t \in Tasks |-> Idle]
    /\ ExtensionOff

NextResolve ==
    \/ \E uri \in Ids, pos \in Positions : recv_hover(1, uri, pos)
    \/ hover_read(1)
    \/ hover_get(1)
    \/ hover_some(1)
    \/ hover_back(1)
    \/ hover_fwd(1)
    \/ hover_word(1)
    \/ complete(1)

SpecResolve == InitResolve /\ [][NextResolve]_vars

----------------------------------------------------------------------------
(* The Zed extension (src/lib.rs).  A path is rooted or not and has its     *)
(* components; the extension is built for wasm32-wasi, where a path is      *)
(* absolute exactly if it is rooted.  A location is where a path leads to   *)
(* on the disk: the components of a rooted path, and those of the current  *)
(* directory followed by the path's for a path that is not rooted.          *)

HOVER_SERVER_ID == "alloy-hover"
BINARY_NAME == "alloy-hover-lsp"
DOCS_TOML == "DOCS_TOML"

Path(root, comps) == [root |-> root, comps |-> comps]

\* Path::strip_prefix("/"): the path without its root, an error without a root
strip_prefix(p) == IF p.root THEN Ok(Path(FALSE, p.comps)) ELSE Err("prefix not found")

\* Path::join: an absolute path replaces the path, any other is appended
join(p, q) == IF q.root THEN q ELSE Path(p.root, p.comps \o q.comps)

\* lines 68-72 and 115-119: on Windows a leading "/" is stripped
on_platform(p) ==
    IF host.os = "Windows" /\ strip_prefix(p)[1] = "Ok" THEN strip_prefix(p)[2] ELSE p

\* where a path leads to: None if it is relative and there is no current directory
locate(p) ==
    IF p.root THEN Some(p.comps)
    ELSE IF host.current_dir[1] = "Ok" THEN Some(host.current_dir[2].comps \o p.comps)
    ELSE None

\* what is at the path on the disk d: "none", "dir", or the content of a file
FileContents == {DOCS_TOML, "other"}
metadata(d, p) ==
    IF locate(p) = None \/ locate(p)[1] \notin DOMAIN d THEN "none" ELSE d[locate(p)[1]]

\* fs::metadata(p).is_ok_and(|m| m.is_file())
is_file(d, p) == metadata(d, p) \in FileContents

\* Path::canonicalize: the absolute path of something that exists
canonicalize(d, p) ==
    IF metadata(d, p) = "none" THEN Err("not found") ELSE Ok(Path(TRUE, locate(p)[1]))

\* ConfAlloy and the disk, as the methods take and leave them
State(binary, docs_path, d) ==
    [cached_binary_path |-> binary, cached_docs_path |-> docs_path, disk |-> d]

\* lines 28-51
language_server_binary_path(st) ==
    IF st.cached_binary_path /= None /\ is_file(st.disk, st.cached_binary_path[1])
    THEN [st |-> st, result |-> Ok(st.cached_binary_path[1])]
    ELSE IF host.which /= None
         THEN [st |-> [st EXCEPT !.cached_binary_path = host.which],
               result |-> Ok(host.which[1])]
         ELSE [st |-> st, result |-> Err("Could not find alloy-hover-lsp on PATH")]

\* lines 74, 77: the path of the docs file under the current directory
docs_path_in(base) ==
    join(join(base, Path(FALSE, <<"alloy-hover">>)), Path(FALSE, <<"alloy-hover.toml">>))

\* fs::write(path, DOCS_TOML): it fails on a directory, and whenever the
\* disk refuses it (wr)
write(d, p, wr) ==
    IF wr /\ locate(p) /= None /\ locate(p)[1] \in DOMAIN d /\ metadata(d, p) /= "dir"
    THEN Ok([d EXCEPT ![locate(p)[1]] = DOCS_TOML])
    ELSE Err("failed to write")

\* lines 65-86, the cache having missed: mk is whether create_dir_all
\* succeeds, wr whether the disk accepts the write
docs_file_path_miss(st, mk, wr) ==
    IF host.current_dir[1] = "Err"
    THEN [st |-> st, result |-> Err("could not get current dir"), wrote |-> FALSE]
    ELSE IF ~mk
    THEN [st |-> st, result |-> Err("failed to create dir"), wrote |-> FALSE]
    ELSE LET docs_path == docs_path_in(on_platform(host.current_dir[2]))
         IN IF ~is_file(st.disk, docs_path)
            THEN IF write(st.disk, docs_path, wr)[1] = "Err"
                 THEN [st |-> st, result |-> write(st.disk, docs_path, wr), wrote |-> FALSE]
                 ELSE [st |-> State(st.cached_binary_path, Some(docs_path),
                                    write(st.disk, docs_path, wr)[2]),
                       result |-> Ok(docs_path), wrote |-> TRUE]
            ELSE [st |-> [st EXCEPT !.cached_docs_path = Some(docs_path)],
                  result |-> Ok(docs_path), wrote |-> FALSE]

\* a docs_file_path that writes the bundled copy whenever the cache misses
docs_file_path_rewrite(st, mk, wr) ==
    IF st.cached_docs_path /= None /\ is_file(st.disk, st.cached_docs_path[1])
    THEN [st |-> st, result |-> Ok(st.cached_docs_path[1]), wrote |-> FALSE]
    ELSE IF host.current_dir[1] = "Err" \/ ~mk
         THEN docs_file_path_miss(st, mk, wr)
         ELSE LET docs_path == docs_path_in(on_platform(host.current_dir[2]))
              IN IF write(st.disk, docs_path, wr)[1] = "Err"
                 THEN [st |-> st, result |-> write(st.disk, docs_path, wr), wrote |-> FALSE]
                 ELSE [st |-> State(st.cached_binary_path, Some(docs_path),
                                    write(st.disk, docs_path, wr)[2]),
                       result |-> Ok(docs_path), wrote |-> TRUE]

\* lines 56-87
docs_file_path(st, mk, wr) ==
    IF st.cached_docs_path /= None /\ is_file(st.disk, st.cached_docs_path[1])
    THEN [st |-> st, result |-> Ok(st.cached_docs_path[1]), wrote |-> FALSE]
    ELSE docs_file_path_miss(st, mk, wr)

\* zed::Command
Command(command, docs_abs) ==
    [command |-> command, args |-> <<>>, env |-> <<<<"ALLOY_HOVER_DOCS", docs_abs>>>>]

\* what a call did: the state it leaves, its result, the results of the two
\* methods it called (None if it did not call them) and whether it wrote
Outcome(st, result, binary, docs_result, wrote) ==
    [st |-> st, result |-> result, binary |-> binary, docs |-> docs_result, wrote |-> wrote]

\* lines 120-136, the binary and the docs file having been found: b is the
\* outcome of language_server_binary_path, d that of docs_file_path
command_with_docs(b, d, mk, wr) ==
    LET cwd == on_platform(host.current_dir[2])
        joined == join(cwd, d.result[2])
        again == docs_file_path(d.st, mk, wr)
    IN IF canonicalize(d.st.disk, joined)[1] = "Ok"
       THEN Outcome(d.st, Ok(Command(b.result[2], canonicalize(d.st.disk, joined)[2])),
                    Some(b.result), Some(d.result), d.wrote)
       ELSE IF again.result[1] = "Err"
            THEN Outcome(again.st, <<"Panic", "unwrap">>, Some(b.result), Some(d.result),
                         d.wrote)
            ELSE Outcome(again.st, Ok(Command(b.result[2], join(cwd, again.result[2]))),
                         Some(b.result), Some(d.result), d.wrote \/ again.wrote)

\* lines 107-136: the call for the id of the hover server; every path of the
\* model is valid UTF-8, so to_str succeeds
command_for_hover(st, mk, wr) ==
    LET b == language_server_binary_path(st)
    IN IF b.result[1] = "Err"
       THEN Outcome(b.st, b.result, Some(b.result), None, FALSE)
       ELSE IF host.current_dir[1] = "Err"
       THEN Outcome(b.st, Err("could not get current dir"), Some(b.result), None, FALSE)
       ELSE LET d == docs_file_path(b.st, mk, wr)
            IN IF d.result[1] = "Err"
               THEN Outcome(d.st, d.result, Some(b.result), Some(d.result), FALSE)
               ELSE command_with_docs(b, d, mk, wr)

\* a call that looks at the id only after it has resolved the two paths
command_of_late_check(st, id, mk, wr) ==
    IF id /= HOVER_SERVER_ID
    THEN Outcome(command_for_hover(st, mk, wr).st, Err("unknown language server"),
                 None, None, FALSE)
    ELSE command_for_hover(st, mk, wr)

\* lines 98-137 as a function of the state
command_of(st, id, mk, wr) ==
    IF id /= HOVER_SERVER_ID
    THEN Outcome(st, Err("unknown language server"), None, None, FALSE)
    ELSE command_for_hover(st, mk, wr)

\* the hosts: the platform, what current_dir() returns and what
\* worktree.which(BINARY_NAME) returns
UnixDir == Path(TRUE, <<"w">>)
WindowsDir == Path(TRUE, <<"C:", "w">>)
Binaries == {Path(TRUE, <<"bin", BINARY_NAME>>), Path(TRUE, <<"opt", BINARY_NAME>>)}
Hosts ==
    {[os |-> "Linux", current_dir |-> c, which |-> None] : c \in {Ok(UnixDir), Err("cwd")}}
        \cup {[os |-> "Windows", current_dir |-> c, which |-> None] :
                 c \in {Ok(WindowsDir), Err("cwd")}}

\* the locations of the model: where the docs file is looked for under each
\* current directory, and the binaries
UnixDocs == <<"w", "alloy-hover", "alloy-hover.toml">>
WindowsDocs == <<"C:", "w", "C:", "w", "alloy-hover", "alloy-hover.toml">>
Locations == {UnixDocs, WindowsDocs} \cup {b.comps : b \in Binaries}

\* where a path leads to for the server process the editor starts with the
\* command: the host has no leading "/" before a drive on Windows (the
\* comment of line 67), and a relative path leads nowhere known
host_locate(p) ==
    IF host.os = "Windows"
    THEN IF ~p.root /\ p.comps /= <<>> /\ p.comps[1] = "C:" THEN Some(p.comps) ELSE None
    ELSE IF p.root THEN Some(p.comps) ELSE None

\* where docs_file_path looks for the docs file on this host
docs_location == IF host.os = "Windows" THEN WindowsDocs ELSE UnixDocs

LanguageServerIds == {HOVER_SERVER_ID, "alloy-lsp"}

NoReply == [id |-> "", result |-> None, binary |-> None, docs |-> None, wrote |-> FALSE,
            before |-> State(None, None, <<>>)]

\* the server is not part of the extension's runs
ServerOff ==
    /\ phase = "off"
    /\ resource = <<>>
    /\ docs = None
    /\ files = <<>>
    /\ lock = <<>>
    /\ tasks = <<>>
    /\ history = <<>>

server == <<phase, resource, docs, files, lock, tasks, history>>

\* Extension::new, lines 91-96, on any host with an empty disk
new ==
    /\ cached_binary_path = None
    /\ cached_docs_path = None
    /\ disk = [l \in Locations |-> "none"]
    /\ host \in Hosts
    /\ reply = NoReply

InitExt == ServerOff /\ new

\* lines 98-137
language_server_command(id, mk, wr) ==
    /\ \E out \in {command_of(State(cached_binary_path, cached_docs_path, disk), id, mk, wr)} :
          /\ cached_binary_path' = out.st.cached_binary_path
          /\ cached_docs_path' = out.st.cached_docs_path
          /\ disk' = out.st.disk
          /\ reply' = [id |-> id, result |-> Some(out.result), binary |-> out.binary,
                       docs |-> out.docs, wrote |-> out.wrote,
                       before |-> State(cached_binary_path, cached_docs_path, disk)]
    /\ UNCHANGED <<host, server>>

\* the user or another program changes what is at a location
disk_changes(l, kind) ==
    /\ disk[l] /= kind
    /\ disk' = [disk EXCEPT ![l] = kind]
    /\ UNCHANGED <<cached_binary_path, cached_docs_path, host, reply, server>>

\* the binary is installed on PATH, moved or removed
which_changes(w) ==
    /\ host.which /= w
    /\ host' = [host EXCEPT !.which = w]
    /\ UNCHANGED <<cached_binary_path, cached_docs_path, disk, reply, server>>

NextExt ==
    \/ \E id \in LanguageServerIds, mk \in BOOLEAN, wr \in BOOLEAN :
          language_server_command(id, mk, wr)
    \/ \E kind \in {"none", "dir", "other"} : disk_changes(docs_location, kind)
    \/ \E b \in Binaries, kind \in {"none", "other"} : disk_changes(b.comps, kind)
    \/ \E w \in {None} \cup {Some(b) : b \in Binaries} : which_changes(w)

SpecExt == InitExt /\ [][NextExt]_vars

----------------------------------------------------------------------------
(* Claims about the document store, checked under Spec *)

HoverDone(t) == tasks[t].method = "hover" /\ tasks[t].pc = "ret"
IsHit(t) == tasks[t].result[1][2] /= None
TakesSnapshot(t) == tasks[t].pc = "hover_get" /\ tasks'[t].pc = "hover_some"
HoldsSnapshot(t) == tasks[t].pc \in {"hover_some", "hover_back", "hover_fwd", "hover_word"}
OpenInserts(t) == tasks[t].pc = "open_insert" /\ tasks'[t].pc = "ret"
ChangeInserts(t) == tasks[t].pc = "change_insert" /\ tasks'[t].pc = "ret"
FinalChange(t) == Some(tasks[t].content_changes[Len(tasks[t].content_changes)])

\* C1: a hover computes its result from one snapshot of the entry.  The
\* snapshot is the entry of the identifier at the step that takes it, which is
\* None or the complete text of the notification applied last; the handler
\* keeps it to its return; and the result it returns is the resolution of that
\* snapshot, whatever is written to the store after the snapshot was taken.
C1_SnapshotIsolation ==
    /\ [](\A t \in Tasks :
            HoverDone(t) =>
                tasks[t].result =
                    Some(resolve(tasks[t].text, tasks[t].line, tasks[t].character, docs[1])))
    /\ [][\A t \in Tasks :
            /\ TakesSnapshot(t) =>
                  /\ tasks'[t].text = files[tasks[t].uri]
                  /\ tasks'[t].text = history[tasks[t].uri].text
                  /\ tasks'[t].text \in {None} \cup {Some(x) : x \in ServerTexts}
            /\ HoldsSnapshot(t) => tasks'[t].text = tasks[t].text]_vars

\* a hover has returned a hit computed from a text that the store no longer holds
C1_Witness ==
    \E t \in Tasks :
        /\ HoverDone(t)
        /\ IsHit(t)
        /\ tasks[t].text /= files[tasks[t].uri]

\* C2: a did_change with a batch of N >= 1 changes stores the text of the
\* final change: the only change its steps make to the store is to set the
\* entry of its document to that text, so the text of no earlier change of the
\* batch is in the store at any step, and the entry holds the final text when
\* the handler returns.
C2_OnlyFinalChangeStored ==
    [][\A t \in Tasks :
          (tasks[t].method = "didChange" /\ tasks'[t] /= tasks[t]) =>
              /\ files' /= files =>
                    /\ tasks[t].content_changes /= <<>>
                    /\ files' = [files EXCEPT ![tasks[t].uri] = FinalChange(t)]
              /\ ChangeInserts(t) => files'[tasks[t].uri] = FinalChange(t)]_vars

\* a did_change whose batch holds two different texts has returned, and the
\* store holds the second
C2_Witness ==
    \E t \in Tasks :
        /\ tasks[t].method = "didChange"
        /\ tasks[t].pc = "ret"
        /\ Len(tasks[t].content_changes) >= 2
        /\ tasks[t].content_changes[1] /= tasks[t].content_changes[Len(tasks[t].content_changes)]
        /\ files[tasks[t].uri] = FinalChange(t)
        /\ history[tasks[t].uri].kind = "change"

\* C3 as claimed: once a change notification has been applied to an
\* identifier, the stored text is the text of the most recent change
\* notification, also after a step that applies no further change to it.
C3_AsClaimed ==
    [][\A id \in Ids :
          (history[id].kind = "change" /\ history'[id].kind /= "change") =>
              files'[id] = history[id].text]_vars

\* C3 as amended: each identifier has at most one stored text, and it is the
\* text of the notification applied to the identifier last, be it an open or
\* a change (of a change, the final text of its batch); an identifier no
\* notification was applied to has none.
C3_LastAppliedStored ==
    \A id \in Ids :
        /\ files[id] = history[id].text
        /\ Len(files[id]) <= 1
        /\ files[id] = None <=> history[id].kind = "none"

\* one document was opened last and another changed last, with different texts
C3_Witness ==
    /\ history[IdA].kind = "open"
    /\ history[IdB].kind = "change"
    /\ files[IdA] /= None
    /\ files[IdB] /= None
    /\ files[IdA] /= files[IdB]

\* C4: did_open returns no error and sets the entry of its identifier to its
\* text whether or not the identifier had one; the entry changes only in a
\* step in which an open or a change for the identifier is applied; and a
\* read of an identifier whose last applied notification is an open yields
\* the text of that open.
C4_OpenOverwrites ==
    [][/\ \A t \in Tasks :
            /\ OpenInserts(t) =>
                  /\ files'[tasks[t].uri] = tasks[t].text
                  /\ tasks'[t].result = Some(Unit)
            /\ (TakesSnapshot(t) /\ history[tasks[t].uri].kind = "open") =>
                  tasks'[t].text = history[tasks[t].uri].text
       /\ \A id \in Ids :
            files'[id] /= files[id] =>
                \E t \in Tasks : tasks[t].uri = id /\ (OpenInserts(t) \/ ChangeInserts(t))]_vars

\* a did_open has replaced a text that a hover had read before
C4_Witness ==
    \E t1, t2 \in Tasks :
        /\ tasks[t1].method = "hover" /\ tasks[t1].pc = "hover_some"
        /\ tasks[t1].text /= None
        /\ tasks[t2].method = "didOpen" /\ tasks[t2].pc = "ret"
        /\ tasks[t2].uri = tasks[t1].uri
        /\ tasks[t2].text /= tasks[t1].text
        /\ files[tasks[t2].uri] = tasks[t2].text
        /\ history[tasks[t2].uri].kind = "open"

\* C9: did_open applied twice with the same text, and did_change applied
\* twice with the same batch, leave the store as one application leaves it,
\* from every store the server reaches; so a read of any identifier finds the
\* same entry after one application as after two.
C9_WritesIdempotent ==
    \A id \in Ids :
        /\ \A text \in ServerTexts :
              did_open_apply(did_open_apply(files, id, text), id, text)
                  = did_open_apply(files, id, text)
        /\ \A changes \in ServerBatches :
              did_change_apply(did_change_apply(files, id, changes), id, changes)
                  = did_change_apply(files, id, changes)

\* two did_open with the same identifier and the same text have both been
\* applied to an identifier that had been changed before, and the store holds
\* their text
C9_Witness ==
    \E t1, t2 \in Tasks :
        /\ t1 /= t2
        /\ tasks[t1].method = "didOpen" /\ tasks[t1].pc = "ret"
        /\ tasks[t2].method = "didOpen" /\ tasks[t2].pc = "ret"
        /\ tasks[t1].uri = tasks[t2].uri
        /\ tasks[t1].text = tasks[t2].text
        /\ files[tasks[t1].uri] = tasks[t1].text

\* C10: the server serves only with the dictionary loaded from the resource:
\* a handler runs only in the serving phase, the serving phase is entered only
\* with the table of the resource as the dictionary, and with a resource that
\* is missing, unreadable or malformed main exits with the error and no
\* handler ever runs.
C10_NoServingWithoutDocs ==
    /\ phase = "serving" => (resource.kind = "table" /\ docs = Some(resource.map))
    /\ (\E t \in Tasks : tasks[t] /= Idle) => (phase = "serving" /\ docs /= None)
    /\ resource.kind /= "table" =>
          /\ phase \in {"start", "exit_err"}
          /\ docs = None
          /\ \A id \in Ids : files[id] = None
    /\ phase = "exit_err" => resource.kind /= "table"

\* main has exited with the error of a malformed resource
C10_Witness == phase = "exit_err" /\ resource.kind = "malformed" /\ docs = None

----------------------------------------------------------------------------
(* Claims about the hover resolver, checked under SpecResolve *)

Dict == docs[1]
HoverResult(t) == tasks[t].result[1][2]
Resolved(t) == HoverDone(t) /\ tasks[t].text /= None
QueryLine(t) == line_at(tasks[t].text[1], tasks[t].line)
Hit(md, line, start, end) == Some(Hover(md, line, start, end))

\* columns [s, e) of the line are a maximal run of word-constituent characters
IsRun(l, s, e) ==
    /\ s < e /\ e <= Len(l)
    /\ \A i \in (s + 1) .. e : is_word(l[i])
    /\ s = 0 \/ ~is_word(l[s])
    /\ e = Len(l) \/ ~is_word(l[e + 1])

Runs(l) == {se \in (0 .. Len(l)) \X (0 .. Len(l)) : IsRun(l, se[1], se[2])}

\* C5 as claimed: for every line and every cursor column inside a maximal run
\* of word-constituent characters whose text is a dictionary key, hover returns
\* the entry of the key with the range from the first column of the run to
\* one past its last, the same for every column inside the run.
C5_AsClaimed ==
    \A t \in Tasks :
        Resolved(t) =>
            \A se \in Runs(QueryLine(t)) :
                (/\ se[1] <= tasks[t].character
                 /\ tasks[t].character < se[2]
                 /\ SubSeq(QueryLine(t), se[1] + 1, se[2]) \in DOMAIN Dict) =>
                    HoverResult(t) =
                        Hit(Dict[SubSeq(QueryLine(t), se[1] + 1, se[2])],
                            tasks[t].line, se[1], se[2])

QuotedFoo == <<"\"", "f", "o", "o", "\"">>

\* C6 as claimed: when the line contains the quoted token "foo" (five
\* characters from column q on) and the dictionary has the key foo, a hover
\* with the cursor on one of the characters of foo returns the entry of foo
\* with the range of all five characters, [q, q + 5).
C6_AsClaimed ==
    \A t \in Tasks :
        (Resolved(t) /\ KeyFoo \in DOMAIN Dict) =>
            \A q \in 0 .. (Len(QueryLine(t)) - 5) :
                (/\ SubSeq(QueryLine(t), q + 1, q + 5) = QuotedFoo
                 /\ tasks[t].character \in (q + 1) .. (q + 3)) =>
                    HoverResult(t) = Hit(Dict[KeyFoo], tasks[t].line, q, q + 5)

\* C6 as amended: the range is the range of the scans and never takes in a
\* quote.  On every hit all the characters of the range are word-constituent
\* characters of the line, with the cursor in the range or at its end; and for
\* the line call("foo"), the key foo and a cursor at columns 6 to 9 the hover
\* is the entry of foo with the range [6, 9), the three characters of foo.
C6_RangeExcludesQuotes ==
    \A t \in Tasks :
        Resolved(t) =>
            /\ HoverResult(t) /= None =>
                  LET r == HoverResult(t)[1].range
                  IN /\ r.start.character <= tasks[t].character
                     /\ tasks[t].character <= r.end.character
                     /\ r.end.character <= Len(QueryLine(t))
                     /\ \A i \in (r.start.character + 1) .. r.end.character :
                           is_word(QueryLine(t)[i]) /\ QueryLine(t)[i] /= "\""
            /\ (/\ QueryLine(t) = Scenario2Text
                /\ KeyFoo \in DOMAIN Dict
                /\ tasks[t].character \in 6 .. 9) =>
                  HoverResult(t) = Hit(Dict[KeyFoo], tasks[t].line, 6, 9)

\* the hover at column 7 of call("foo") has returned the entry of foo
C6_Witness ==
    \E t \in Tasks :
        /\ Resolved(t)
        /\ tasks[t].text = Some(Scenario2Text)
        /\ tasks[t].line = 0 /\ tasks[t].character = 7
        /\ KeyFoo \in DOMAIN Dict
        /\ HoverResult(t) /= None

\* C7 as claimed: for a line that ends in a word that is a dictionary key, a
\* hover at a column greater than the length of the line returns what the
\* hover at the column equal to the length of the line returns.
C7_AsClaimed ==
    \A t \in Tasks :
        (/\ Resolved(t)
         /\ tasks[t].character > Len(QueryLine(t))
         /\ \E s \in 0 .. Len(QueryLine(t)) :
               /\ IsRun(QueryLine(t), s, Len(QueryLine(t)))
               /\ SubSeq(QueryLine(t), s + 1, Len(QueryLine(t))) \in DOMAIN Dict) =>
            tasks[t].result =
                Some(resolve(tasks[t].text, tasks[t].line, Len(QueryLine(t)), Dict))

\* the word the handler extracts at the cursor (line 98)
ExtractedWord(t) ==
    word_of(QueryLine(t),
            scan_back(QueryLine(t), tasks[t].character),
            scan_fwd(QueryLine(t), tasks[t].character))

\* C8: hover returns Ok, never an error, and its result is present exactly
\* when the identifier has a stored text, the line index is a line of the
\* text, the word extracted at the cursor is not empty and that word is itself
\* a key of the dictionary, the result then carrying the entry of that key.
\* So it is absent for an identifier that was never opened, with the empty
\* dictionary, and with the cursor between two characters that are not
\* word-constituent.
C8_PresentIffExactKey ==
    \A t \in Tasks :
        HoverDone(t) =>
            /\ tasks[t].result[1][1] = "Ok"
            /\ HoverResult(t) /= None <=>
                  /\ files[tasks[t].uri] /= None
                  /\ tasks[t].text /= None
                  /\ tasks[t].line < Len(lines(tasks[t].text[1]))
                  /\ ExtractedWord(t) /= <<>>
                  /\ ExtractedWord(t) \in DOMAIN Dict
            /\ HoverResult(t) /= None =>
                  HoverResult(t)[1].contents = Dict[ExtractedWord(t)]
            /\ files[tasks[t].uri] = None => HoverResult(t) = None
            /\ DOMAIN Dict = {} => HoverResult(t) = None
            /\ (/\ tasks[t].text /= None
                /\ 1 <= tasks[t].character
                /\ tasks[t].character < Len(QueryLine(t))
                /\ ~is_word(QueryLine(t)[tasks[t].character])
                /\ ~is_word(QueryLine(t)[tasks[t].character + 1])) =>
                  HoverResult(t) = None

\* a hover on the word a has returned no result with a dictionary that has
\* the key aa but not the key a
C8_Witness ==
    \E t \in Tasks :
        /\ Resolved(t)
        /\ ExtractedWord(t) = KeyA
        /\ KeyAA \in DOMAIN Dict
        /\ KeyA \notin DOMAIN Dict
        /\ HoverResult(t) = None

----------------------------------------------------------------------------
(* Claims about what the handlers leave alone, checked under Spec *)

HoverStep(t) == tasks'[t].method = "hover" /\ tasks'[t] /= tasks[t]

\* C11: a hover request leaves the document store and the dictionary
\* unchanged, whatever its outcome: every step of a hover handler, from the
\* receipt of the request to its return, keeps the entry of every identifier
\* and the dictionary as they were.
C11_HoverKeepsStoreAndDocs ==
    [][\A t \in Tasks :
          HoverStep(t) => (\A id \in Ids : files'[id] = files[id]) /\ docs' = docs]_vars

\* a hover of an identifier without an entry has returned no result, the
\* identifier still has no entry, and the other identifier has its text
C11_Witness ==
    \E t \in Tasks :
        /\ HoverDone(t)
        /\ tasks[t].text = None
        /\ tasks[t].result = Some(Ok(None))
        /\ files[tasks[t].uri] = None
        /\ \E id \in Ids : files[id] /= None
        /\ docs = Some(resource.map)

EmptyChange(t) == tasks[t].method = "didChange" /\ tasks[t].content_changes = <<>>

\* C14: a did_change notification whose batch of content changes is empty
\* leaves the store unchanged for every identifier: no step of its handler
\* creates, clears or alters an entry, and the handler returns without taking
\* the lock.
C14_EmptyBatchKeepsStore ==
    [][\A t \in Tasks :
          (EmptyChange(t) /\ tasks'[t] /= tasks[t]) =>
              /\ \A id \in Ids : files'[id] = files[id]
              /\ lock' = lock
              /\ tasks'[t].pc \in {"ret", "idle"}]_vars

\* two did_change notifications with empty batches have returned, one for an
\* identifier that has a text and one for an identifier that has none
C14_Witness ==
    \E t, u \in Tasks :
        /\ EmptyChange(t) /\ tasks[t].pc = "ret"
        /\ EmptyChange(u) /\ tasks[u].pc = "ret"
        /\ files[tasks[t].uri] \in {Some(x) : x \in ServerTexts}
        /\ files[tasks[u].uri] = None

NotificationStep(t) ==
    tasks[t].method \in {"didOpen", "didChange"} /\ tasks'[t] /= tasks[t]

\* C15: did_open and did_change for identifier A change only A's entry: at
\* every step of such a handler, under any interleaving with the handlers of
\* other notifications, the entry of every other identifier B (its text or
\* its absence) is what it was before the step.
C15_OnlyOwnEntryChanges ==
    [][\A t \in Tasks :
          NotificationStep(t) =>
              \A id \in Ids \ {tasks[t].uri} : files'[id] = files[id]]_vars

\* a did_open of one identifier and a did_change of the other have both
\* returned, and each identifier holds the text of its own notification,
\* the two texts being different
C15_Witness ==
    \E t, u \in Tasks :
        /\ tasks[t].method = "didOpen" /\ tasks[t].pc = "ret"
        /\ tasks[u].method = "didChange" /\ tasks[u].pc = "ret"
        /\ tasks[u].content_changes /= <<>>
        /\ tasks[t].uri /= tasks[u].uri
        /\ files[tasks[t].uri] = tasks[t].text
        /\ files[tasks[u].uri] = tasks[u].text
        /\ tasks[t].text /= tasks[u].text

Stored == {id \in Ids : files[id] /= None}

\* C16: the set of identifiers present in the store only grows: an
\* identifier that has a stored text has one after every step of every
\* handler, shutdown included, and it is in the store once a did_open or a
\* non-empty did_change has inserted it.
C16_StoredSetOnlyGrows ==
    [][/\ \A id \in Ids : files[id] /= None => files'[id] /= None
       /\ \A t \in Tasks :
             (OpenInserts(t) \/ ChangeInserts(t)) => files'[tasks[t].uri] /= None]_vars

\* shutdown has returned and both identifiers still have their texts, one
\* stored by a did_change and one by a did_open
C16_Witness ==
    \E t \in Tasks :
        /\ tasks[t].method = "shutdown" /\ tasks[t].pc = "ret"
        /\ Stored = Ids
        /\ history[IdA].kind = "change"
        /\ history[IdB].kind = "open"

----------------------------------------------------------------------------
(* Claims about the returned range, checked under SpecResolve *)

\* C17: whenever hover returns a present result, its range lies on the
\* queried line, is not empty and contains the cursor: start.line = end.line
\* = query line, start.character <= query column <= end.character and
\* start.character < end.character.
C17_RangeOnLineAroundCursor ==
    \A t \in Tasks :
        (HoverDone(t) /\ IsHit(t)) =>
            LET range == HoverResult(t)[1].range
            IN /\ range.start.line = tasks[t].line
               /\ range.end.line = tasks[t].line
               /\ range.start.character <= tasks[t].character
               /\ tasks[t].character <= range.end.character
               /\ range.start.character < range.end.character

\* a hover on the second line has returned a hit whose range has the cursor
\* strictly inside
C17_Witness ==
    \E t \in Tasks :
        /\ HoverDone(t)
        /\ IsHit(t)
        /\ tasks[t].line = 1
        /\ HoverResult(t)[1].range.start.line = 1
        /\ HoverResult(t)[1].range.start.character < tasks[t].character
        /\ tasks[t].character < HoverResult(t)[1].range.end.character

----------------------------------------------------------------------------
(* Claims about the key, checked under SpecResolve *)

\* the characters of l at the character positions [s, e)
CharsAt(l, s, e) ==
    LET hi == IF e < Len(l) THEN e ELSE Len(l)
    IN IF hi <= s THEN <<>> ELSE [i \in 1 .. (hi - s) |-> l[s + i]]

\* C13: on every hover the key looked up in the dictionary is exactly the
\* sequence of characters of the line at the character positions [start,
\* end), start and end being the boundaries the scans found, on every line,
\* lines with characters of more than one storage unit included.
C13_AsClaimed ==
    \A t \in Tasks :
        tasks[t].pc = "hover_word" =>
            word_of(hover_line(t), tasks[t].start, tasks[t].end) =
                CharsAt(hover_line(t), tasks[t].start, tasks[t].end)

----------------------------------------------------------------------------
(* Claims about termination, checked under SpecFair *)

\* a turn of a scan loop: the handler is in the loop before and after its step
BackTurn(t) ==
    tasks[t].pc = "hover_back" /\ tasks'[t].pc = "hover_back" /\ tasks'[t] /= tasks[t]
FwdTurn(t) ==
    tasks[t].pc = "hover_fwd" /\ tasks'[t].pc = "hover_fwd" /\ tasks'[t] /= tasks[t]

\* C12: every hover request eventually returns.  Each turn of the backward
\* scan decreases start, which stays at or above 0; each turn of the forward
\* scan increases end, which stays at or below the length of the line; and
\* under fair scheduling a hover that was received returns, whatever
\* did_open, did_change and hover handlers run beside it on the store.
C12_HoverReturns ==
    /\ \A t \in Tasks : (tasks[t].method = "hover") ~> HoverDone(t)
    /\ [][\A t \in Tasks :
            /\ BackTurn(t) =>
                  tasks'[t].start < tasks[t].start /\ tasks'[t].start >= 0
            /\ FwdTurn(t) =>
                  tasks'[t].end > tasks[t].end /\ tasks'[t].end <= len(hover_line(t))]_vars

\* a hover whose forward scan made a turn has returned a hit while another
\* handler holds the write lock
C12_Witness ==
    \E t, u \in Tasks :
        /\ HoverDone(t)
        /\ IsHit(t)
        /\ tasks[t].end > tasks[t].character
        /\ lock.writer = Some(u)

----------------------------------------------------------------------------
(* Claims about the extension, checked under SpecExt *)

\* a step that is a call of language_server_command
CommandStep == reply' /= reply
Succeeded(r) == r.result /= None /\ r.result[1][1] = "Ok"
\* the value of ALLOY_HOVER_DOCS in the command a call returned
DocsEnv(r) == r.result[1][2].env[1][2]
\* the path docs_file_path returned to the call
DocsPath(r) == r.docs[1][2]

\* C18: language_server_command called with an id other than "alloy-hover"
\* returns an error and leaves both caches and the docs file as they were;
\* called with "alloy-hover", a successful result carries ALLOY_HOVER_DOCS
\* set to the path of the docs file that docs_file_path ensured exists: the
\* variable's path leads to where the path returned by docs_file_path leads,
\* and a regular file is there.
C18_UnknownIdFailsAndDocsEnvSet ==
    [][CommandStep =>
          /\ reply'.id /= HOVER_SERVER_ID =>
                /\ reply'.result[1][1] = "Err"
                /\ cached_binary_path' = cached_binary_path
                /\ cached_docs_path' = cached_docs_path
                /\ disk' = disk
          /\ (reply'.id = HOVER_SERVER_ID /\ Succeeded(reply')) =>
                /\ host_locate(DocsEnv(reply')) = locate(DocsPath(reply'))
                /\ is_file(disk', DocsPath(reply'))]_vars

\* a call with another id has been refused on a Windows host after a call
\* had filled both caches and written the docs file, and the caches and the
\* file are as that call left them
C18_Witness ==
    /\ reply.id = "alloy-lsp"
    /\ reply.result = Some(Err("unknown language server"))
    /\ host.os = "Windows"
    /\ cached_binary_path /= None
    /\ cached_docs_path /= None
    /\ cached_docs_path = reply.before.cached_docs_path
    /\ metadata(disk, cached_docs_path[1]) = DOCS_TOML
    /\ disk = reply.before.disk

\* the result a method returned to the call r is a path
Found(res) == res /= None /\ res[1][1] = "Ok"

\* C19: over any sequence of calls, docs_file_path writes the bundled copy
\* only when no regular file is at the target path, so a docs file that
\* exists is never overwritten; and a cached path, of the docs file or of
\* the binary, is returned only if a regular file is at it at the time of
\* the call: otherwise the path is resolved again and the cache is set to
\* the path newly returned.
C19_NoOverwriteAndCacheChecked ==
    [][CommandStep =>
          /\ reply'.wrote => ~is_file(disk, DocsPath(reply'))
          /\ \A l \in Locations :
                /\ disk[l] \in FileContents => disk'[l] = disk[l]
                /\ disk'[l] /= disk[l] => reply'.wrote /\ disk'[l] = DOCS_TOML
          /\ Found(reply'.docs) =>
                IF cached_docs_path /= None /\ is_file(disk, cached_docs_path[1])
                THEN DocsPath(reply') = cached_docs_path[1]
                     /\ cached_docs_path' = cached_docs_path
                ELSE cached_docs_path' = Some(DocsPath(reply'))
                     /\ is_file(disk', DocsPath(reply'))
          /\ Found(reply'.binary) =>
                IF cached_binary_path /= None /\ is_file(disk, cached_binary_path[1])
                THEN reply'.binary[1][2] = cached_binary_path[1]
                     /\ cached_binary_path' = cached_binary_path
                ELSE host.which = Some(reply'.binary[1][2])
                     /\ cached_binary_path' = host.which]_vars

\* a call has succeeded without writing: the docs cache was empty and a docs
\* file with other content was at the target, which is still there; and the
\* cached binary was no longer a file, so the cache now holds another path
C19_Witness ==
    /\ Succeeded(reply)
    /\ ~reply.wrote
    /\ reply.before.cached_docs_path = None
    /\ cached_docs_path /= None
    /\ metadata(reply.before.disk, cached_docs_path[1]) = "other"
    /\ metadata(disk, cached_docs_path[1]) = "other"
    /\ reply.before.cached_binary_path /= None
    /\ ~is_file(reply.before.disk, reply.before.cached_binary_path[1])
    /\ cached_binary_path /= reply.before.cached_binary_path

====
